---------------------------- MODULE Spec2Model ----------------------------
(***************************************************************************)
(* quartos user programs: hello.c and fibonacci.c.                         *)
(*                                                                         *)
(* Two freestanding RISC-V programs that write to a memory-mapped UART.    *)
(* The model is a small machine: a program counter, a stack of return      *)
(* addresses, the locals of put / putNum / fib, and the stream of bytes    *)
(* stored to the UART address.  Besides the two program images, three      *)
(* callers apply put, putNum and fib to inputs drawn from bounded sets.    *)
(*                                                                         *)
(* TLC's integers are 32-bit signed, so an `unsigned int' is kept as two   *)
(* 16-bit halves [hi, lo] and the C operators on it are written out on     *)
(* the halves.                                                             *)
(***************************************************************************)
EXTENDS Integers, Sequences, FiniteSets, TLC

---------------------------------------------------------------------------
(* Bounds of the model *)

\* put is applied to every message of at most MaxLen bytes over MsgBytes
MaxLen == 3
\* put is called up to MaxCalls times in a row on the same message
MaxCalls == 3
\* putNum is applied to every value 0..MaxNum (and to EdgeNums)
MaxNum == 130
\* fib is run call by call on every argument 0..MaxFibSteps
MaxFibSteps == 12
\* fib is evaluated on every argument 0..MaxFibArg
MaxFibArg == 60
\* number of return addresses the stack holds
MaxStack == 10

---------------------------------------------------------------------------
(* unsigned int *)

\* one half of an unsigned int: 16 of its 32 bits
Half == 2^16

U32 == [hi : 0..(Half - 1), lo : 0..(Half - 1)]

\* the unsigned int of a natural k < 2^31
FromNat(k) == [hi |-> k \div Half, lo |-> k % Half]

Zero == FromNat(0)

\* a + b on unsigned int: the carry out of bit 31 is dropped
Add32Narrow(a, b) == [hi |-> (a.hi + b.hi) % Half, lo |-> (a.lo + b.lo) % Half]
Add32Saturating(a, b) ==
    IF a.hi + b.hi + ((a.lo + b.lo) \div Half) >= Half
    THEN [hi |-> Half - 1, lo |-> Half - 1]
    ELSE [hi |-> a.hi + b.hi + ((a.lo + b.lo) \div Half), lo |-> (a.lo + b.lo) % Half]
Add32(a, b) ==
    LET s == a.lo + b.lo
    IN  [hi |-> (a.hi + b.hi + (s \div Half)) % Half, lo |-> s % Half]

\* a - k on unsigned int, for a small constant k: wraps below zero
SubSmall(a, k) ==
    IF a.lo >= k
    THEN [hi |-> a.hi, lo |-> a.lo - k]
    ELSE [hi |-> (a.hi + Half - 1) % Half, lo |-> a.lo + Half - k]

\* num % 10
Mod10(a) == (((a.hi % 10) * Half) + a.lo) % 10

\* num / 10, truncating
Div10Lossy(a) == [hi |-> a.hi \div 10, lo |-> a.lo \div 10]
Div10(a) ==
    [hi |-> a.hi \div 10, lo |-> (((a.hi % 10) * Half) + a.lo) \div 10]

\* num > 0
GtZero(a) == a.hi > 0 \/ a.lo > 0

\* n <= 1
LeqOneStrict(n) == n.hi = 0 /\ n.lo < 1
LeqOne(n) == n.hi = 0 /\ n.lo <= 1

---------------------------------------------------------------------------
(* The string literals and the UART *)

\* '\0', '0', '\r', '\n' as bytes
Nul == 0
Char0 == 48
CR == 13
LF == 10

Byte == 0..255

\* "Hello there\r\n"
HelloStr == <<72, 101, 108, 108, 111, 32, 116, 104, 101, 114, 101, CR, LF>>
\* "Fib(40) = "
IntroStr == <<70, 105, 98, 40, 52, 48, 41, 32, 61, 32>>
\* "\r\n"
CrLfStr == <<CR, LF>>
\* the argument of fib in main
FibMainArg == 40

\* read-only data of hello.c: the literal and its terminator, at address 1
HelloData == HelloStr \o <<Nul>>
HelloAddr == 1
\* read-only data of fibonacci.c: both literals, each with its terminator
FibData == IntroStr \o <<Nul>> \o CrLfStr \o <<Nul>>
IntroAddr == 1
CrLfAddr == Len(IntroStr) + 2

\* bytes of the messages the caller of put draws, and what lies in memory
\* after the terminator of such a message
MsgBytes == {65, 66, CR}
Beyond == <<90, Nul>>
RECURSIVE SeqsUpTo(_)
SeqsUpTo(n) ==
    IF n = 0 THEN {<<>>}
    ELSE LET S == SeqsUpTo(n - 1)
         IN  S \cup {Append(m, c) : m \in {x \in S : Len(x) = n - 1}, c \in MsgBytes}
Messages == SeqsUpTo(MaxLen)

\* values the caller of putNum draws besides 0..MaxNum: around each power
\* of ten and of two that matters, up to UINT_MAX
EdgeHalves == {0, 1, 9, 10, 99, 1561, 15258, 32459, 51712, 51711, 65535}
EdgeNums == {[hi |-> h, lo |-> l] : h \in EdgeHalves, l \in EdgeHalves}
NumInputs == {FromNat(k) : k \in 0..MaxNum} \cup EdgeNums

\* char buff[10]
BuffLenShort == 10 - 1
BuffLen == 10
\* a slot of buff no store has filled yet
Unfilled == -1
EmptyBuff == [k \in 0..(BuffLen - 1) |-> Unfilled]

\* *uart = c : one byte store to the device appends c to the output stream
UartWriteTwice(out, c) == out \o <<c, c>>
UartWrite(out, c) == Append(out, c)

---------------------------------------------------------------------------
(* State *)

VARIABLES
    prog,      \* the image running: "hello", "fibonacci", or a caller of one function
    pc,        \* the program counter, as a label
    stack,     \* return addresses, innermost first
    rodata,    \* the read-only bytes the string pointers point into (1-based)
    str,       \* put: char *str
    num,       \* putNum: unsigned int num
    buff,      \* putNum: char buff[10]
    i,         \* putNum: char i
    a0,        \* the register holding fib's return value
    frames,    \* fib: one record per active call, innermost first: n, and the
               \* result of fib(n - 1) once it has returned
    uartOut,   \* every byte stored to *uart, in order
    arg,       \* the caller's input to putNum or fib
    times,     \* the caller's number of calls of put
    calls,     \* calls of put the caller has made
    str0,      \* value of str when put was entered
    num0,      \* value of num when putNum was entered
    out0,      \* value of uartOut when put / putNum was entered
    oob        \* a store outside buff, or a load of an unfilled slot, happened

vars == <<prog, pc, stack, rodata, str, num, buff, i, a0, frames, uartOut,
          arg, times, calls, str0, num0, out0, oob>>

Images == {"hello", "fibonacci"}
Callers == {"put", "putNum", "fib", "fibval"}

InitRegs ==
    /\ stack = <<>>
    /\ str = 0
    /\ num = Zero
    /\ buff = EmptyBuff
    /\ i = 0
    /\ a0 = Zero
    /\ frames = <<>>
    /\ uartOut = <<>>
    /\ calls = 0
    /\ str0 = 0
    /\ num0 = Zero
    /\ out0 = <<>>
    /\ oob = FALSE

InitHello ==
    /\ prog = "hello" /\ pc = "_start"
    /\ rodata = HelloData /\ arg = Zero /\ times = 0

InitFibonacci ==
    /\ prog = "fibonacci" /\ pc = "_start"
    /\ rodata = FibData /\ arg = Zero /\ times = 0

InitPut ==
    /\ prog = "put" /\ pc = "drv"
    /\ \E m \in Messages : rodata = m \o <<Nul>> \o Beyond
    /\ times \in 1..MaxCalls
    /\ arg = Zero

InitPutNum ==
    /\ prog = "putNum" /\ pc = "drv"
    /\ rodata = <<Nul>> /\ times = 0
    /\ arg \in NumInputs

InitFib ==
    /\ prog = "fib" /\ pc = "drv"
    /\ rodata = <<Nul>> /\ times = 0
    /\ arg \in {FromNat(k) : k \in 0..MaxFibSteps}

InitFibVal ==
    /\ prog = "fibval" /\ pc = "drv"
    /\ rodata = <<Nul>> /\ times = 0
    /\ arg \in {FromNat(k) : k \in 0..MaxFibArg}

Init ==
    /\ InitRegs
    /\ \/ InitHello
       \/ InitFibonacci
       \/ InitPut
       \/ InitPutNum
       \/ InitFib
       \/ InitFibVal

---------------------------------------------------------------------------
(* Calls and returns *)

\* a call: the return address is pushed and control moves to the callee;
\* with no room left for the return address the machine faults
Call(ret, target) ==
    IF Len(stack) < MaxStack
    THEN /\ stack' = <<ret>> \o stack
         /\ pc' = target
    ELSE /\ stack' = stack
         /\ pc' = "stack_fault"

\* the ret of put, putNum and main: control moves to the return address
Return ==
    /\ pc \in {"put_ret", "putNum_ret", "main_ret"}
    /\ pc' = Head(stack)
    /\ stack' = Tail(stack)
    /\ UNCHANGED <<prog, rodata, str, num, buff, i, a0, frames, uartOut,
                   arg, times, calls, str0, num0, out0, oob>>

\* entry of put(p): str is the argument
EnterPutKeeps(p) ==
    /\ str' = IF str = 0 THEN p ELSE str
    /\ str0' = p
    /\ out0' = uartOut
EnterPut(p) ==
    /\ str' = p
    /\ str0' = p
    /\ out0' = uartOut

\* entry of putNum(v): num is the argument
EnterPutNum(v) ==
    /\ num' = v
    /\ num0' = v
    /\ out0' = uartOut

---------------------------------------------------------------------------
(* put *)

\* *str != '\0'
PutMoreAlways(p) == p <= Len(rodata)
PutMore(p) == rodata[p] /= Nul

\* str++
PutAdvance(p) == p + 1

\* for (; *str != '\0'; str++) *uart = *str;   one iteration
PutWrite ==
    /\ pc = "put"
    /\ PutMore(str)
    /\ uartOut' = UartWrite(uartOut, rodata[str])
    /\ str' = PutAdvance(str)
    /\ UNCHANGED <<prog, pc, stack, rodata, num, buff, i, a0, frames,
                   arg, times, calls, str0, num0, out0, oob>>

\* the loop ends at the terminator, which is not written
PutExit ==
    /\ pc = "put"
    /\ ~PutMore(str)
    /\ pc' = "put_ret"
    /\ UNCHANGED <<prog, stack, rodata, str, num, buff, i, a0, frames, uartOut,
                   arg, times, calls, str0, num0, out0, oob>>

---------------------------------------------------------------------------
(* putNum *)

\* (num % 10) + '0'
DigitChar(v) == Mod10(v) + Char0

\* char buff[10]; char i = 0;
PutNumEnter ==
    /\ pc = "putNum"
    /\ buff' = EmptyBuff
    /\ i' = 0
    /\ pc' = "putNum_do"
    /\ UNCHANGED <<prog, stack, rodata, str, num, a0, frames, uartOut,
                   arg, times, calls, str0, num0, out0, oob>>

\* do { buff[i++] = (num % 10) + '0'; num /= 10; } while (num > 0);
\* one iteration; a store outside buff is recorded in oob
PutNumDigit ==
    /\ pc = "putNum_do"
    /\ IF i \in 0..(BuffLen - 1)
       THEN buff' = [buff EXCEPT ![i] = DigitChar(num)] /\ oob' = oob
       ELSE buff' = buff /\ oob' = TRUE
    /\ i' = i + 1
    /\ num' = Div10(num)
    /\ pc' = IF GtZero(Div10(num)) THEN "putNum_do" ELSE "putNum_replay"
    /\ UNCHANGED <<prog, stack, rodata, str, a0, frames, uartOut,
                   arg, times, calls, str0, num0, out0>>

\* the bytes a load of buff[k] can give: the byte stored there, or any byte
\* when nothing was stored there
BuffLoad(k) ==
    IF k \in 0..(BuffLen - 1) /\ buff[k] /= Unfilled THEN {buff[k]} ELSE Byte

\* --i in the replay loop
ReplayIndexOffByOne(k) == k
ReplayIndex(k) == k - 1

\* while (i > 0) *uart = buff[--i];   one iteration
PutNumReplay ==
    /\ pc = "putNum_replay"
    /\ i > 0
    /\ LET k == ReplayIndex(i)
       IN  /\ \E c \in BuffLoad(k) : uartOut' = UartWrite(uartOut, c)
           /\ oob' = (oob \/ ~(k \in 0..(BuffLen - 1)) \/ buff[k] = Unfilled)
           /\ i' = i - 1
    /\ UNCHANGED <<prog, pc, stack, rodata, str, num, buff, a0, frames,
                   arg, times, calls, str0, num0, out0>>

\* the replay loop ends with i = 0
PutNumExit ==
    /\ pc = "putNum_replay"
    /\ ~(i > 0)
    /\ pc' = "putNum_ret"
    /\ UNCHANGED <<prog, stack, rodata, str, num, buff, i, a0, frames, uartOut,
                   arg, times, calls, str0, num0, out0, oob>>

---------------------------------------------------------------------------
(* fib, call by call *)

\* n - 1 and n - 2, the arguments of the two recursive calls
FibArg1(n) == SubSmall(n, 1)
FibArg2Same(n) == n
FibArg2(n) == SubSmall(n, 2)

\* a call of fib(n): as Call, and the callee's record is pushed
CallFib(ret, n) ==
    IF Len(stack) < MaxStack
    THEN /\ stack' = <<ret>> \o stack
         /\ frames' = <<[n |-> n, r1 |-> Zero]>> \o frames
         /\ pc' = "fib"
    ELSE /\ stack' = stack
         /\ frames' = frames
         /\ pc' = "stack_fault"

\* if (n <= 1) return n;
FibBase ==
    /\ pc = "fib"
    /\ LeqOne(Head(frames).n)
    /\ a0' = Head(frames).n
    /\ pc' = "fib_ret"
    /\ UNCHANGED <<prog, stack, rodata, str, num, buff, i, frames, uartOut,
                   arg, times, calls, str0, num0, out0, oob>>

\* else ... fib(n - 1) ...
FibCall1 ==
    /\ pc = "fib"
    /\ ~LeqOne(Head(frames).n)
    /\ CallFib("fib_1", FibArg1(Head(frames).n))
    /\ UNCHANGED <<prog, rodata, str, num, buff, i, a0, uartOut,
                   arg, times, calls, str0, num0, out0, oob>>

\* ... + fib(n - 2): the first result is kept, the second call is made
FibCall2 ==
    /\ pc = "fib_1"
    /\ LET saved == [Head(frames) EXCEPT !.r1 = a0]
       IN  IF Len(stack) < MaxStack
           THEN /\ stack' = <<"fib_2">> \o stack
                /\ frames' = <<[n |-> FibArg2(saved.n), r1 |-> Zero], saved>>
                                \o Tail(frames)
                /\ pc' = "fib"
           ELSE /\ stack' = stack
                /\ frames' = <<saved>> \o Tail(frames)
                /\ pc' = "stack_fault"
    /\ UNCHANGED <<prog, rodata, str, num, buff, i, a0, uartOut,
                   arg, times, calls, str0, num0, out0, oob>>

\* return fib(n - 1) + fib(n - 2);
FibAdd ==
    /\ pc = "fib_2"
    /\ a0' = Add32(Head(frames).r1, a0)
    /\ pc' = "fib_ret"
    /\ UNCHANGED <<prog, stack, rodata, str, num, buff, i, frames, uartOut,
                   arg, times, calls, str0, num0, out0, oob>>

\* the ret of fib: its record is dropped, control moves to the return address
FibReturn ==
    /\ pc = "fib_ret"
    /\ pc' = Head(stack)
    /\ stack' = Tail(stack)
    /\ frames' = Tail(frames)
    /\ UNCHANGED <<prog, rodata, str, num, buff, i, a0, uartOut,
                   arg, times, calls, str0, num0, out0, oob>>

---------------------------------------------------------------------------
(* fib, as a value *)

\* the body of fib on n, given the results r1, r2 of its two recursive calls
FibBody(n, r1, r2) == IF LeqOne(n) THEN n ELSE Add32(r1, r2)

\* the results of fib(0), ..., fib(k), each from FibBody and the two entries
\* before it.  fib has no state and no effect, so fib(k) is the same value
\* at every one of its calls and each entry is computed once; FibAgrees
\* states that this table and the call-by-call machine give the same value
RECURSIVE FibTable(_)
FibExtend(t, k) ==
    Append(t, FibBody(FromNat(k),
                      IF k >= 1 THEN t[k] ELSE Zero,
                      IF k >= 2 THEN t[k - 1] ELSE Zero))
FibTable(k) == FibExtend(IF k = 0 THEN <<>> ELSE FibTable(k - 1), k)

\* the results of fib(0), ..., fib(MaxFibArg)
FibValues == FibTable(MaxFibArg)

\* fib(n), for n <= MaxFibArg
fib(n) == FibValues[n.lo + 1]

---------------------------------------------------------------------------
(* _start and main *)

\* where `call main' returns to: the `j 0' of hello.c, the _start_park
\* label of fibonacci.c
AfterMain == IF prog = "hello" THEN "_start_j0" ELSE "_start_park"

\* _start: call main
StartCallMain ==
    /\ pc = "_start"
    /\ Call(AfterMain, "main")
    /\ UNCHANGED <<prog, rodata, str, num, buff, i, a0, frames, uartOut,
                   arg, times, calls, str0, num0, out0, oob>>

\* hello.c main: put("Hello there\r\n");
HelloMain ==
    /\ pc = "main"
    /\ prog = "hello"
    /\ EnterPut(HelloAddr)
    /\ Call("main_ret", "put")
    /\ UNCHANGED <<prog, rodata, num, buff, i, a0, frames, uartOut,
                   arg, times, calls, num0, oob>>

\* hello.c _start: j 0 -- the jump to null page-faults and the program dies
JumpNull ==
    /\ pc = "_start_j0"
    /\ pc' = "faulted"
    /\ UNCHANGED <<prog, stack, rodata, str, num, buff, i, a0, frames, uartOut,
                   arg, times, calls, str0, num0, out0, oob>>

\* fibonacci.c main: put("Fib(40) = ");
FibMainPutIntro ==
    /\ pc = "main"
    /\ prog = "fibonacci"
    /\ EnterPut(IntroAddr)
    /\ Call("main_fib", "put")
    /\ UNCHANGED <<prog, rodata, num, buff, i, a0, frames, uartOut,
                   arg, times, calls, num0, oob>>

\* fibonacci.c main: fib(40), the argument of putNum.  The 331160281 calls
\* of this evaluation are taken as one step that leaves fib's value in a0
FibMainCallFib ==
    /\ pc = "main_fib"
    /\ a0' = fib(FromNat(FibMainArg))
    /\ pc' = "main_putNum"
    /\ UNCHANGED <<prog, stack, rodata, str, num, buff, i, frames, uartOut,
                   arg, times, calls, str0, num0, out0, oob>>

\* fibonacci.c main: putNum(fib(40));
FibMainPutNum ==
    /\ pc = "main_putNum"
    /\ EnterPutNum(a0)
    /\ Call("main_crlf", "putNum")
    /\ UNCHANGED <<prog, rodata, str, buff, i, a0, frames, uartOut,
                   arg, times, calls, str0, oob>>

\* fibonacci.c main: put("\r\n");
FibMainPutCrLf ==
    /\ pc = "main_crlf"
    /\ EnterPut(CrLfAddr)
    /\ Call("main_ret", "put")
    /\ UNCHANGED <<prog, rodata, num, buff, i, a0, frames, uartOut,
                   arg, times, calls, num0, oob>>

\* fibonacci.c _start_park: j _start_park
ParkTargetStart == "_start"
ParkTarget == "_start_park"
Park ==
    /\ pc = "_start_park"
    /\ pc' = ParkTarget
    /\ UNCHANGED <<prog, stack, rodata, str, num, buff, i, a0, frames, uartOut,
                   arg, times, calls, str0, num0, out0, oob>>

---------------------------------------------------------------------------
(* Callers of one function on a drawn input *)

\* put(m), `times' times in a row; m is at address 1 of rodata
DrvPut ==
    /\ pc = "drv"
    /\ prog = "put"
    /\ calls < times
    /\ calls' = calls + 1
    /\ EnterPut(1)
    /\ Call("drv", "put")
    /\ UNCHANGED <<prog, rodata, num, buff, i, a0, frames, uartOut,
                   arg, times, num0, oob>>

DrvPutDone ==
    /\ pc = "drv"
    /\ prog = "put"
    /\ ~(calls < times)
    /\ pc' = "done"
    /\ UNCHANGED <<prog, stack, rodata, str, num, buff, i, a0, frames, uartOut,
                   arg, times, calls, str0, num0, out0, oob>>

\* putNum(arg)
DrvPutNum ==
    /\ pc = "drv"
    /\ prog = "putNum"
    /\ EnterPutNum(arg)
    /\ Call("done", "putNum")
    /\ UNCHANGED <<prog, rodata, str, buff, i, a0, frames, uartOut,
                   arg, times, calls, str0, oob>>

\* fib(arg), call by call
DrvFib ==
    /\ pc = "drv"
    /\ prog = "fib"
    /\ CallFib("done", arg)
    /\ UNCHANGED <<prog, rodata, str, num, buff, i, a0, uartOut,
                   arg, times, calls, str0, num0, out0, oob>>

\* fib(arg), as one step
DrvFibVal ==
    /\ pc = "drv"
    /\ prog = "fibval"
    /\ a0' = fib(arg)
    /\ pc' = "done"
    /\ UNCHANGED <<prog, stack, rodata, str, num, buff, i, frames, uartOut,
                   arg, times, calls, str0, num0, out0, oob>>

---------------------------------------------------------------------------
(* Specifications *)

Next ==
    \/ StartCallMain
    \/ HelloMain
    \/ JumpNull
    \/ FibMainPutIntro
    \/ FibMainCallFib
    \/ FibMainPutNum
    \/ FibMainPutCrLf
    \/ Park
    \/ Return
    \/ PutWrite
    \/ PutExit
    \/ PutNumEnter
    \/ PutNumDigit
    \/ PutNumReplay
    \/ PutNumExit
    \/ FibBase
    \/ FibCall1
    \/ FibCall2
    \/ FibAdd
    \/ FibReturn
    \/ DrvPut
    \/ DrvPutDone
    \/ DrvPutNum
    \/ DrvFib
    \/ DrvFibVal

Spec == Init /\ [][Next]_vars

\* one instruction stream on one processor: the next instruction always runs
FairSpec == Spec /\ WF_vars(Next)

\* the program has ended: parked (fibonacci.c) or faulted at null (hello.c)
Parked == prog = "fibonacci" /\ pc = "_start_park"
Faulted == prog = "hello" /\ pc = "faulted"
Terminated == Parked \/ Faulted

TypeOK ==
    /\ prog \in Images \cup Callers
    /\ stack \in Seq(STRING) /\ Len(stack) <= MaxStack
    /\ str \in 0..Len(rodata)
    /\ num \in U32 /\ a0 \in U32 /\ arg \in U32 /\ num0 \in U32
    /\ i \in 0..BuffLen
    /\ \A k \in 0..(BuffLen - 1) : buff[k] \in Byte \cup {Unfilled}
    /\ \A k \in 1..Len(uartOut) : uartOut[k] \in Byte
    /\ Len(out0) <= Len(uartOut)
    /\ oob \in BOOLEAN

\* the call-by-call machine and the table give the same value of fib(n)
FibAgrees == pc = "fib_ret" => a0 = fib(Head(frames).n)

---------------------------------------------------------------------------
(* What the properties are stated against *)

\* the message at address p: the bytes from p up to, not including, the
\* first terminator at or after p
TermAt(p) == CHOOSE e \in p..Len(rodata) :
                 /\ rodata[e] = Nul
                 /\ \A k \in p..(e - 1) : rodata[k] /= Nul
CStr(p) == SubSeq(rodata, p, TermAt(p) - 1)

\* k copies of m, one after the other
RECURSIVE Copies(_, _)
Copies(m, k) == IF k = 0 THEN <<>> ELSE Copies(m, k - 1) \o m

IsPrefix(s, t) == Len(s) <= Len(t) /\ s = SubSeq(t, 1, Len(s))

\* naturals beyond TLC's integers: hi * 2^16 + lo, with hi unbounded
WideAdd(a, b) ==
    LET s == a.lo + b.lo
    IN  [hi |-> a.hi + b.hi + (s \div Half), lo |-> s % Half]
\* the value reduced modulo 2^32
Narrow(w) == [hi |-> w.hi % Half, lo |-> w.lo]

\* the number a string of decimal digits denotes
RECURSIVE DecValue(_)
DecValue(s) ==
    IF s = <<>> THEN [hi |-> 0, lo |-> 0]
    ELSE LET p == DecValue(SubSeq(s, 1, Len(s) - 1))
             t == (p.lo * 10) + (s[Len(s)] - 48)
         IN  [hi |-> (p.hi * 10) + (t \div Half), lo |-> t % Half]

\* s is the canonical decimal string of v: digits only, at least one, no
\* leading zero unless s is "0", and denoting v
IsDecimalOf(s, v) ==
    /\ Len(s) >= 1
    /\ \A k \in 1..Len(s) : s[k] \in 48..57
    /\ (Len(s) > 1 => s[1] /= 48)
    /\ DecValue(s) = v

\* the Fibonacci numbers F(k), F(k+1), from F(0) = 0, F(1) = 1 and
\* F(k+2) = F(k+1) + F(k), with no reduction
RECURSIVE MathFibPair(_)
MathFibPair(k) ==
    IF k = 0 THEN <<[hi |-> 0, lo |-> 0], [hi |-> 0, lo |-> 1]>>
    ELSE LET q == MathFibPair(k - 1) IN <<q[2], WideAdd(q[1], q[2])>>
MathFib(k) == MathFibPair(k)[1]

\* the output between the entry of the current call and now
Written == SubSeq(uartOut, Len(out0) + 1, Len(uartOut))

---------------------------------------------------------------------------
(* Properties *)

\* C1: when putNum(v) returns, the UART stream is the stream at the call
\* followed by exactly the canonical decimal string of v (most significant
\* digit first, no leading zero), and by exactly "0" when v = 0.
C1_PutNumDecimal ==
    pc = "putNum_ret" =>
        /\ uartOut = out0 \o Written
        /\ IsDecimalOf(Written, num0)
        /\ (num0 = Zero => Written = <<48>>)
C1_Witness ==
    /\ prog = "putNum" /\ pc = "putNum_ret"
    /\ arg = [hi |-> 65535, lo |-> 65535]
    /\ Len(uartOut) = 10

\* C2: throughout put(m) the bytes written so far are the bytes of m before
\* str, in order, and str never passes the terminator; when put returns it
\* has made exactly len(m) writes, str is at the terminator, and neither the
\* terminator nor anything after it was written.
C2_PutWritesMessage ==
    pc \in {"put", "put_ret"} =>
        /\ str \in str0..TermAt(str0)
        /\ uartOut = out0 \o SubSeq(rodata, str0, str - 1)
        /\ (pc = "put_ret" =>
               /\ str = TermAt(str0)
               /\ Len(uartOut) - Len(out0) = TermAt(str0) - str0
               /\ uartOut = out0 \o CStr(str0))
C2_Witness ==
    /\ prog = "put" /\ pc = "put_ret" /\ calls = 1
    /\ Len(uartOut) = MaxLen
    /\ rodata[Len(uartOut) + 2] /= Nul

\* C3: when fibonacci.c has ended, the whole UART stream is
\* "Fib(40) = 102334155\r\n".
C3_FibonacciOutput ==
    (prog = "fibonacci" /\ pc \in {"main_ret", "_start_park"}) =>
        uartOut = <<70, 105, 98, 40, 52, 48, 41, 32, 61, 32,
                    49, 48, 50, 51, 51, 52, 49, 53, 53, 13, 10>>
C3_Witness == Parked /\ Len(uartOut) = 21 /\ stack = <<>>

\* C4: in hello.c the UART stream is at every moment a prefix of the 13
\* bytes of "Hello there\r\n", and it is all 13 of them from the return of
\* put on, the jump to address 0 included.
C4_HelloOutput ==
    prog = "hello" =>
        LET hello == <<72, 101, 108, 108, 111, 32, 116, 104, 101, 114, 101, 13, 10>>
        IN  /\ IsPrefix(uartOut, hello)
            /\ (pc \in {"put_ret", "main_ret", "_start_j0", "faulted"} =>
                   uartOut = hello /\ Len(uartOut) = 13)
C4_Witness == Faulted /\ Len(uartOut) = 13 /\ stack = <<>>

\* C5: every call fib(n) with n <= 47 returns the Fibonacci number F(n) of
\* the recurrence F(0) = 0, F(1) = 1, F(n) = F(n-1) + F(n-2); in particular
\* fib(0) = 0, fib(1) = 1, fib(2) = 1 and fib(10) = 55.
FibReturned(n, r) ==
    /\ (n.hi = 0 /\ n.lo <= 47 => r = MathFib(n.lo))
    /\ (n = FromNat(0) => r = FromNat(0))
    /\ (n = FromNat(1) => r = FromNat(1))
    /\ (n = FromNat(2) => r = FromNat(1))
    /\ (n = FromNat(10) => r = FromNat(55))
C5_FibRecurrence ==
    /\ (pc = "fib_ret" => FibReturned(Head(frames).n, a0))
    /\ (prog \in {"fib", "fibval"} /\ pc = "done" => FibReturned(arg, a0))
C5_Witness ==
    /\ prog = "fib" /\ pc = "done"
    /\ arg = FromNat(10) /\ a0 = FromNat(55)

\* C6: in putNum every store buff[i++] has i in 0..9, i is at most 10 after
\* the digit loop, and every load buff[--i] of the replay loop reads a slot
\* the digit loop of the same call filled.
C6_BuffInBounds ==
    /\ ~oob
    /\ (pc = "putNum_do" => i \in 0..9)
    /\ (pc \in {"putNum_replay", "putNum_ret"} =>
           /\ i \in 0..10
           /\ \A k \in 0..(i - 1) : buff[k] \in 48..57)
C6_Witness ==
    /\ pc = "putNum_replay" /\ i = 10
    /\ num0 = [hi |-> 65535, lo |-> 65535]

\* C7: once the program is parked (fibonacci.c) or faulted (hello.c), no
\* step changes the program counter, the stack or the UART stream: main is
\* not entered again and nothing more is written.
C7_TerminatedAbsorbing ==
    [][Terminated => (pc' = pc /\ stack' = stack /\ uartOut' = uartOut)]_vars
C7_Witness == Parked /\ uartOut /= <<>> /\ a0 = FromNat(102334155)

\* C8: after k calls of put(m) in a row the UART stream is exactly k copies
\* of m, one after the other.
C8_PutRepeats ==
    (prog = "put" /\ pc \in {"drv", "done"}) =>
        uartOut = Copies(CStr(1), calls)
C8_Witness ==
    /\ prog = "put" /\ pc = "done"
    /\ calls = MaxCalls /\ Len(uartOut) = MaxCalls * MaxLen

\* C9: given a stack that holds the calls, every run ends: each program
\* reaches its terminated state and each caller gets its call back.
EnoughStack == prog = "fib" => arg.lo <= MaxStack
Finished == Terminated \/ (prog \in Callers /\ pc = "done")
C9_RunsToCompletion == EnoughStack => <>Finished
C9_Witness ==
    /\ prog = "fib" /\ pc = "done"
    /\ arg = FromNat(MaxStack) /\ stack = <<>> /\ frames = <<>>

\* C10: fib(n) is F(n) modulo 2^32 for every n, it differs from F(n) for
\* n >= 48, and the call returns like any other.
C10_FibWraps ==
    /\ (pc = "fib_ret" => a0 = Narrow(MathFib(Head(frames).n.lo)))
    /\ (prog \in {"fib", "fibval"} /\ pc = "done" =>
           /\ a0 = Narrow(MathFib(arg.lo))
           /\ (arg.lo >= 48 => a0 /= MathFib(arg.lo)))
C10_Witness ==
    /\ prog = "fibval" /\ pc = "done"
    /\ arg = FromNat(48) /\ a0 = [hi |-> 7821, lo |-> 2624]

===========================================================================
